---- MODULE Spec2Model ----
(***************************************************************************)
(* Task-monitoring subsystem of the bili2text web client:                  *)
(* monitorTask (taskMonitor.js) / App.monitorTask (app.js).                *)
(*                                                                         *)
(* One monitor instance is modelled together with the host's cooperative   *)
(* scheduler: the pending setTimeout timers, the pending                   *)
(* requestAnimationFrame callbacks and the status request in flight.       *)
(*                                                                         *)
(* Fixed-point conventions (JavaScript numbers are doubles):               *)
(*   progress values      are integers in hundredths   (0.99  ->  99)      *)
(*   widths (percent)     are integers in thousandths  (5%    ->  5000)    *)
(*   elapsed_time (s)     is an integer in tenths      (75.4s ->  754)     *)
(* Optional JSON fields are sets with at most one element ({} = absent).   *)
(* The user-facing Chinese texts are rendered by ASCII glosses.            *)
(***************************************************************************)
EXTENDS Integers, Sequences, FiniteSets, TLC

VARIABLES
    videoId,            \* monitorTask's videoId argument
    statusElem,         \* document.getElementById('task-status') is not null
    progressBar,        \* document.getElementById('task-progress') is not null
    lastProgress,       \* let lastProgress
    animationFrame,     \* let animationFrame: "null", or the handle of the most
                        \* recent requestAnimationFrame call: "live" while that
                        \* callback is still pending, "stale" once it ran or
                        \* was cancelled
    currentStageName,   \* let currentStageName
    checkInterval,      \* let checkInterval
    checkCount,         \* let checkCount
    width,              \* progressBar.style.width
    frames,             \* pending requestAnimationFrame callbacks, in request
                        \* order; each is the targetProgress its closure holds
    timers,             \* pending setTimeout callbacks, in arming order
    inflight,           \* status requests awaiting their response
    statusText,         \* textContent of #task-status
    modalShown,         \* #task-modal is not hidden
    outcomes,           \* showNotification calls made by the monitor
    navigated,          \* navigateCallback calls made by the monitor
    currentPage,        \* currentPage of the router state / of App
    currentVideoId,     \* currentVideoId of the router state / of App
    container,          \* what #app-container shows: "loader", "notFound"
                        \* or the name of the page whose template it holds
    pageTimers,         \* pending setTimeout callbacks of the router and of
                        \* the page controllers, in arming order
    hash,               \* window.location.hash as a path (<<>> = no hash)
    hashEvents,         \* hashchange events the program's own assignments
                        \* to window.location.hash have caused, not yet
                        \* dispatched
    pagination,         \* const pagination: page and total (limit is fixed)
    clickListeners,     \* click listeners initTranscriptionsPage has added
                        \* to document
    listRequests,       \* fetchTranscriptions calls awaiting their response,
                        \* in calling order
    controls,           \* the controls of the displayed list: what
                        \* updatePagination last wrote (the data-page
                        \* buttons and the disabled flags) and the values
                        \* of #tag-filter and #search-input
    deleteRequests,     \* deleteTranscription calls awaiting their response
    now,                \* the clock, in milliseconds
    burst,              \* history: the current burst of search input, for
                        \* the page controller and for App
    requests,           \* history: status requests issued so far
    streak,             \* history: transport failures since the last response
    observed            \* history: first terminal condition a poll observed

vars == <<videoId, statusElem, progressBar, lastProgress, animationFrame,
          currentStageName, checkInterval, checkCount, width, frames, timers,
          inflight, statusText, modalShown, outcomes, navigated, currentPage,
          currentVideoId, container, pageTimers, hash, hashEvents, pagination,
          clickListeners, listRequests, controls, deleteRequests, now, burst,
          requests, streak, observed>>

\* The page container, the router's timers and the location.
routerVars == <<container, controls, pageTimers, hash, hashEvents>>

\* The state of the page controllers.
controllerVars == <<pagination, clickListeners, listRequests, deleteRequests,
                    now, burst>>

----------------------------------------------------------------------------
(* Bounds of the model.                                                    *)

\* Processing reports are accepted by the model while checkCount is below it.
MaxChecks == 32

\* The videoId arguments a monitor is started with.
VideoIds == {"BV1", "BV2"}

\* data.progress of a processing report ({} = field absent).
ProgressInputs == {{}, {6}}

\* data.stage_name of a processing report ({} = field absent).
StageInputs == {{}, {"transcribing"}}

\* data.elapsed_time of a processing report, in tenths of a second.
ElapsedInputs == {754}

\* data.error of a success:false response ({} absent, {""} empty string).
ErrorInputs == {{}, {""}, {"quota exceeded"}}

----------------------------------------------------------------------------
(* Program constants.                                                      *)

InitialInterval == 1000     \* let checkInterval = 1000
SecondInterval == 2000      \* checkInterval = 2000
ThirdInterval == 3000       \* checkInterval = 3000
FirstStepCount == 10        \* checkCount > 10
SecondStepCount == 30       \* checkCount > 30
SecondStepGuard == 5000     \* checkInterval < 5000
RetryDelay == 3000          \* setTimeout(checkStatus, 3000)
MaxRetries == 5             \* checkCount < 5
GraceDelay == 1500          \* }, 1500)
NavigateDelay == 1000       \* }, 1000) around navigateCallback
ApiErrorDelay == 1000       \* }, 1000) around the API-error notification
OverrideProgress == 99      \* progress >= 0.99
MinWidth == 5000            \* Math.max(5, ...)
MaxWidth == 100000          \* Math.min(100, ...)
SnapGap == 500              \* 0.5
StepDivisor == 10           \* * 0.1
WidthPerProgress == 1000    \* targetProgress * 100, in the fixed-point units
InitialWidth == 5000        \* progressBar.style.width = '5%'
SecondsPerMinute == 60      \* elapsedTime / 60
TenthsPerSecond == 10       \* fixed-point unit of elapsed_time

DefaultStageName == "processing"                \* '正在处理'
ApiErrorFallback == "cannot get task status"    \* '无法获取任务状态'

----------------------------------------------------------------------------
(* JavaScript helpers.                                                     *)

\* a || b for an optional number: the default for undefined and 0.
OrElseNumber(field, default) ==
    IF field = {} \/ field = {0}
    THEN default
    ELSE CHOOSE x \in field : TRUE

\* a || b for an optional string: the default for undefined and ''.
OrElseString(field, default) ==
    IF field = {} \/ field = {""}
    THEN default
    ELSE CHOOSE x \in field : TRUE

Abs(x) == IF x < 0 THEN -x ELSE x

Max(a, b) == IF a > b THEN a ELSE b

Min(a, b) == IF a < b THEN a ELSE b

\* Math.floor of a number held in n-ths.
Floor(x, n) == x \div n

\* a % b of JavaScript: the sign of the dividend.
JsRem(a, b) == IF a >= 0 THEN a % b ELSE -((-a) % b)

\* x * 0.1 on the fixed-point grid, rounded toward zero.
Tenth(x) == IF x >= 0 THEN x \div StepDivisor ELSE -((-x) \div StepDivisor)

----------------------------------------------------------------------------
(* The progress animator: animateProgress and the frame callbacks.         *)

\* The animator's state as one value: style.width, the pending frame
\* callbacks and the animationFrame handle.
Anim == [w |-> width, f |-> frames, h |-> animationFrame]

\* Mutant of TargetWidth: the target is not clamped.
MutTargetWidth_Unclamped(targetProgress) == targetProgress * WidthPerProgress

\* Math.max(5, Math.min(100, targetProgress * 100))
TargetWidth(targetProgress) ==
    Max(MinWidth, Min(MaxWidth, targetProgress * WidthPerProgress))

\* newWidth = currentWidth + (targetWidth - currentWidth) * 0.1
NewWidth(currentWidth, targetWidth) ==
    currentWidth + Tenth(targetWidth - currentWidth)

\* Math.abs(targetWidth - currentWidth) < 0.5
SnapsToTarget(currentWidth, targetWidth) ==
    Abs(targetWidth - currentWidth) < SnapGap

\* Mutant of Reschedules: the loop goes on until the bar is at the target.
MutReschedules_UntilEqual(newWidth, targetWidth) ==
    Abs(newWidth - targetWidth) > 0

\* Math.abs(newWidth - targetWidth) > 0.5
Reschedules(newWidth, targetWidth) ==
    Abs(newWidth - targetWidth) > SnapGap

\* One call animateProgress(targetProgress) on animator state a.
animateProgress(a, targetProgress) ==
    IF ~progressBar
    THEN a
    ELSE LET currentWidth == a.w
             targetWidth == TargetWidth(targetProgress)
             newWidth == NewWidth(currentWidth, targetWidth)
         IN  IF SnapsToTarget(currentWidth, targetWidth)
             THEN [a EXCEPT !.w = targetWidth]
             ELSE IF Reschedules(newWidth, targetWidth)
                  THEN [w |-> newWidth,
                        f |-> Append(a.f, targetProgress),
                        h |-> "live"]
                  ELSE [a EXCEPT !.w = newWidth]

\* if (animationFrame) cancelAnimationFrame(animationFrame): the handle names
\* the most recent request, the last pending callback while it is live.
cancelAnimationFrame(a) ==
    IF a.h = "live"
    THEN [a EXCEPT !.f = SubSeq(a.f, 1, Len(a.f) - 1), !.h = "stale"]
    ELSE a

\* The host runs the callbacks that were pending when the frame began, in
\* request order; callbacks they request wait for the next frame.
RECURSIVE RunFrames(_, _)
RunFrames(a, callbacks) ==
    IF callbacks = <<>>
    THEN a
    ELSE RunFrames(animateProgress(a, Head(callbacks)), Tail(callbacks))

----------------------------------------------------------------------------
(* The poll loop: checkStatus.                                             *)

Timer(kind, delay, msg) == [kind |-> kind, delay |-> delay, msg |-> msg]

Outcome(kind, title, message) ==
    [kind |-> kind, title |-> title, message |-> message]

\* Mutant of TranscriptionPath: the path is built from the task id.
MutTranscriptionPath_TaskId(id) == <<"transcription", "task">>

\* `transcription/${videoId}`
TranscriptionPath(id) == <<"transcription", id>>

\* Mutant of AdjustInterval: the two interval values swapped.
MutAdjustInterval_Swapped(count, interval) ==
    IF count > SecondStepCount
    THEN SecondInterval
    ELSE IF count > FirstStepCount THEN ThirdInterval ELSE interval

\* The interval adjustment after checkCount++ (count is the new checkCount).
AdjustInterval(count, interval) ==
    LET first == IF count > FirstStepCount /\ interval < ThirdInterval
                 THEN SecondInterval
                 ELSE interval
    IN  IF count > SecondStepCount /\ first < SecondStepGuard
        THEN ThirdInterval
        ELSE first

\* The decimal digits as characters.
DigitChars == <<"0", "1", "2", "3", "4", "5", "6", "7", "8", "9">>

\* n.toString() of an integer, as its sequence of characters.
RECURSIVE toString(_)
toString(n) ==
    IF n < 0 THEN <<"-">> \o toString(-n)
    ELSE IF n < 10 THEN <<DigitChars[n + 1]>>
    ELSE Append(toString(n \div 10), DigitChars[(n % 10) + 1])

\* str.padStart(targetLength, padChar)
RECURSIVE padStart(_, _, _)
padStart(str, targetLength, padChar) ==
    IF Len(str) >= targetLength
    THEN str
    ELSE padStart(<<padChar>> \o str, targetLength, padChar)

\* Mutant of StageText: the seconds are not padded.
MutStageText_NoPadding(stageName, elapsed_time) ==
    LET elapsedTime == Floor(elapsed_time, TenthsPerSecond)
        minutes == Floor(elapsedTime, 1 * SecondsPerMinute)
        seconds == JsRem(elapsedTime, SecondsPerMinute)
    IN  [kind |-> "stage",
         stage |-> stageName,
         minutes |-> toString(minutes),
         seconds |-> toString(seconds)]

\* The status line of a processing report:
\* `${stageName}，已用时: ${minutes}分${seconds.toString().padStart(2, '0')}秒`
StageText(stageName, elapsed_time) ==
    LET elapsedTime == Floor(elapsed_time, TenthsPerSecond)
        minutes == Floor(elapsedTime, 1 * SecondsPerMinute)
        seconds == JsRem(elapsedTime, SecondsPerMinute)
    IN  [kind |-> "stage",
         stage |-> stageName,
         minutes |-> toString(minutes),
         seconds |-> padStart(toString(seconds), 2, "0")]

FixedText(kind) ==
    [kind |-> kind, stage |-> "", minutes |-> <<>>, seconds |-> <<>>]

\* Mutant of IssueRequest: the status request is sent twice.
MutIssueRequest_Twice ==
    /\ inflight' = inflight + 2
    /\ requests' = requests + 2

\* checkStatus up to its await: the status request is issued.
IssueRequest ==
    /\ inflight' = inflight + 1
    /\ requests' = requests + 1

\* Mutant of CatchBlock: a failure is retried whatever checkCount is.
MutCatchBlock_NoBudget ==
    /\ timers' = Append(timers, Timer("retry", RetryDelay, ""))
    /\ checkCount' = checkCount + 1
    /\ UNCHANGED <<modalShown, outcomes>>

\* Mutant of CatchBlock: the retry is armed again when the budget is spent.
MutCatchBlock_RetriesAfterGivingUp ==
    IF checkCount < MaxRetries
    THEN /\ timers' = Append(timers, Timer("retry", RetryDelay, ""))
         /\ checkCount' = checkCount + 1
         /\ UNCHANGED <<modalShown, outcomes>>
    ELSE /\ modalShown' = FALSE
         /\ outcomes' = Append(outcomes,
                Outcome("Errored", "connection failed", "cannot reach server"))
         /\ timers' = Append(timers, Timer("retry", RetryDelay, ""))
         /\ UNCHANGED checkCount

\* Mutant of CatchBlock: checkCount <= 5 for checkCount < 5.
MutCatchBlock_OffByOne ==
    IF checkCount <= MaxRetries
    THEN /\ timers' = Append(timers, Timer("retry", RetryDelay, ""))
         /\ checkCount' = checkCount + 1
         /\ UNCHANGED <<modalShown, outcomes>>
    ELSE /\ modalShown' = FALSE
         /\ outcomes' = Append(outcomes,
                Outcome("Errored", "connection failed", "cannot reach server"))
         /\ UNCHANGED <<timers, checkCount>>

\* Mutant of CatchBlock: the retry is not counted.
MutCatchBlock_NoIncrement ==
    IF checkCount < MaxRetries
    THEN /\ timers' = Append(timers, Timer("retry", RetryDelay, ""))
         /\ UNCHANGED <<checkCount, modalShown, outcomes>>
    ELSE /\ modalShown' = FALSE
         /\ outcomes' = Append(outcomes,
                Outcome("Errored", "connection failed", "cannot reach server"))
         /\ UNCHANGED <<timers, checkCount>>

\* Mutant of CatchBlock: the retry is armed twice.
MutCatchBlock_ArmsTwice ==
    IF checkCount < MaxRetries
    THEN /\ timers' = timers \o <<Timer("retry", RetryDelay, ""),
                                   Timer("retry", RetryDelay, "")>>
         /\ checkCount' = checkCount + 1
         /\ UNCHANGED <<modalShown, outcomes>>
    ELSE /\ modalShown' = FALSE
         /\ outcomes' = Append(outcomes,
                Outcome("Errored", "connection failed", "cannot reach server"))
         /\ UNCHANGED <<timers, checkCount>>

\* Mutant of CatchBlock: the budget is counted per streak of failures.
MutCatchBlock_PerStreak ==
    IF streak < MaxRetries
    THEN /\ timers' = Append(timers, Timer("retry", RetryDelay, ""))
         /\ checkCount' = checkCount + 1
         /\ UNCHANGED <<modalShown, outcomes>>
    ELSE /\ modalShown' = FALSE
         /\ outcomes' = Append(outcomes,
                Outcome("Errored", "connection failed", "cannot reach server"))
         /\ UNCHANGED <<timers, checkCount>>

\* The catch block of checkStatus, entered with the current checkCount.
CatchBlock ==
    IF checkCount < MaxRetries
    THEN /\ timers' = Append(timers, Timer("retry", RetryDelay, ""))
         /\ checkCount' = checkCount + 1
         /\ UNCHANGED <<modalShown, outcomes>>
    ELSE /\ modalShown' = FALSE
         /\ outcomes' = Append(outcomes,
                Outcome("Errored", "connection failed", "cannot reach server"))
         /\ UNCHANGED <<timers, checkCount>>

\* What the history records when the catch block is entered.
CatchObserved ==
    IF observed = "none" /\ ~(checkCount < MaxRetries)
    THEN "exhausted"
    ELSE observed

\* Mutant of ProcessingBranch: progress >= lastProgress for progress > lastProgress.
MutProcessingBranch_AcceptsEqual(data) ==
    LET progress == OrElseNumber(data.progress, 0)
        stageName == OrElseString(data.stage_name, currentStageName)
        accepted == progress >= lastProgress \/ progress >= OverrideProgress
        a == IF accepted
             THEN animateProgress(cancelAnimationFrame(Anim), progress)
             ELSE Anim
    IN  /\ currentStageName' = stageName
        /\ width' = a.w
        /\ frames' = a.f
        /\ animationFrame' = a.h
        /\ lastProgress' = IF accepted THEN progress ELSE lastProgress
        /\ IF statusElem
           THEN /\ statusText' = StageText(stageName, data.elapsed_time)
                /\ checkCount' = checkCount + 1
                /\ checkInterval' = AdjustInterval(checkCount + 1, checkInterval)
                /\ timers' = Append(timers, Timer("poll", checkInterval', ""))
                /\ observed' = observed
                /\ UNCHANGED <<modalShown, outcomes>>
           ELSE \* TypeError at .textContent, caught by the catch block
                /\ CatchBlock
                /\ observed' = CatchObserved
                /\ UNCHANGED <<statusText, checkInterval>>

\* Mutant of ProcessingBranch: the stage name of the report is not kept.
MutProcessingBranch_StageNotKept(data) ==
    LET progress == OrElseNumber(data.progress, 0)
        stageName == OrElseString(data.stage_name, currentStageName)
        accepted == progress > lastProgress \/ progress >= OverrideProgress
        a == IF accepted
             THEN animateProgress(cancelAnimationFrame(Anim), progress)
             ELSE Anim
    IN  /\ currentStageName' = currentStageName
        /\ width' = a.w
        /\ frames' = a.f
        /\ animationFrame' = a.h
        /\ lastProgress' = IF accepted THEN progress ELSE lastProgress
        /\ IF statusElem
           THEN /\ statusText' = StageText(stageName, data.elapsed_time)
                /\ checkCount' = checkCount + 1
                /\ checkInterval' = AdjustInterval(checkCount + 1, checkInterval)
                /\ timers' = Append(timers, Timer("poll", checkInterval', ""))
                /\ observed' = observed
                /\ UNCHANGED <<modalShown, outcomes>>
           ELSE \* TypeError at .textContent, caught by the catch block
                /\ CatchBlock
                /\ observed' = CatchObserved
                /\ UNCHANGED <<statusText, checkInterval>>

\* Mutant of ProcessingBranch: lastProgress takes every reported progress.
MutProcessingBranch_AlwaysAssigns(data) ==
    LET progress == OrElseNumber(data.progress, 0)
        stageName == OrElseString(data.stage_name, currentStageName)
        accepted == progress > lastProgress \/ progress >= OverrideProgress
        a == IF accepted
             THEN animateProgress(cancelAnimationFrame(Anim), progress)
             ELSE Anim
    IN  /\ currentStageName' = stageName
        /\ width' = a.w
        /\ frames' = a.f
        /\ animationFrame' = a.h
        /\ lastProgress' = progress
        /\ IF statusElem
           THEN /\ statusText' = StageText(stageName, data.elapsed_time)
                /\ checkCount' = checkCount + 1
                /\ checkInterval' = AdjustInterval(checkCount + 1, checkInterval)
                /\ timers' = Append(timers, Timer("poll", checkInterval', ""))
                /\ observed' = observed
                /\ UNCHANGED <<modalShown, outcomes>>
           ELSE \* TypeError at .textContent, caught by the catch block
                /\ CatchBlock
                /\ observed' = CatchObserved
                /\ UNCHANGED <<statusText, checkInterval>>

\* data.success, status === 'processing'
ProcessingBranch(data) ==
    LET progress == OrElseNumber(data.progress, 0)
        stageName == OrElseString(data.stage_name, currentStageName)
        accepted == progress > lastProgress \/ progress >= OverrideProgress
        a == IF accepted
             THEN animateProgress(cancelAnimationFrame(Anim), progress)
             ELSE Anim
    IN  /\ currentStageName' = stageName
        /\ width' = a.w
        /\ frames' = a.f
        /\ animationFrame' = a.h
        /\ lastProgress' = IF accepted THEN progress ELSE lastProgress
        /\ IF statusElem
           THEN /\ statusText' = StageText(stageName, data.elapsed_time)
                /\ checkCount' = checkCount + 1
                /\ checkInterval' = AdjustInterval(checkCount + 1, checkInterval)
                /\ timers' = Append(timers, Timer("poll", checkInterval', ""))
                /\ observed' = observed
                /\ UNCHANGED <<modalShown, outcomes>>
           ELSE \* TypeError at .textContent, caught by the catch block
                /\ CatchBlock
                /\ observed' = CatchObserved
                /\ UNCHANGED <<statusText, checkInterval>>

\* data.success, status === 'completed'
CompletedBranch ==
    LET a == animateProgress(Anim, 100)
    IN  /\ width' = a.w
        /\ frames' = a.f
        /\ animationFrame' = a.h
        /\ IF statusElem
           THEN /\ statusText' = FixedText("completed")
                /\ timers' = Append(timers, Timer("completed", GraceDelay, ""))
                /\ UNCHANGED <<checkCount, modalShown, outcomes>>
           ELSE /\ CatchBlock
                /\ UNCHANGED statusText
        /\ observed' = IF observed = "none" THEN "completed" ELSE observed
        /\ UNCHANGED <<lastProgress, currentStageName, checkInterval>>

\* Mutant of FailedBranch: the timer of the completed branch is armed.
MutFailedBranch_CompletedTimer ==
    /\ IF statusElem
       THEN /\ statusText' = FixedText("failed")
            /\ timers' = Append(timers, Timer("completed", GraceDelay, ""))
            /\ UNCHANGED <<checkCount, modalShown, outcomes>>
       ELSE /\ CatchBlock
            /\ UNCHANGED statusText
    /\ observed' = IF observed = "none" THEN "failed" ELSE observed
    /\ UNCHANGED <<lastProgress, animationFrame, currentStageName,
                   checkInterval, width, frames>>

\* data.success, status === 'failed'
FailedBranch ==
    /\ IF statusElem
       THEN /\ statusText' = FixedText("failed")
            /\ timers' = Append(timers, Timer("failed", GraceDelay, ""))
            /\ UNCHANGED <<checkCount, modalShown, outcomes>>
       ELSE /\ CatchBlock
            /\ UNCHANGED statusText
    /\ observed' = IF observed = "none" THEN "failed" ELSE observed
    /\ UNCHANGED <<lastProgress, animationFrame, currentStageName,
                   checkInterval, width, frames>>

\* data.success with any other status: no branch is taken.
OtherStatusBranch ==
    /\ UNCHANGED <<lastProgress, animationFrame, currentStageName,
                   checkInterval, checkCount, width, frames, timers,
                   statusText, modalShown, outcomes, observed>>

\* Mutant of ApiErrorBranch: the rejection is retried like a transport failure.
MutApiErrorBranch_Retries(data) ==
    /\ CatchBlock
    /\ observed' = CatchObserved
    /\ UNCHANGED <<lastProgress, animationFrame, currentStageName,
                   checkInterval, width, frames, statusText>>

\* Mutant of ApiErrorBranch: the grace delay of the other terminal branches.
MutApiErrorBranch_GraceDelay(data) ==
    /\ timers' = Append(timers,
           Timer("apiError", GraceDelay, OrElseString(data.error, ApiErrorFallback)))
    /\ observed' = IF observed = "none" THEN "apiError" ELSE observed
    /\ UNCHANGED <<lastProgress, animationFrame, currentStageName,
                   checkInterval, checkCount, width, frames, statusText,
                   modalShown, outcomes>>

\* !data.success: the API-error branch.
ApiErrorBranch(data) ==
    /\ timers' = Append(timers,
           Timer("apiError", ApiErrorDelay, OrElseString(data.error, ApiErrorFallback)))
    /\ observed' = IF observed = "none" THEN "apiError" ELSE observed
    /\ UNCHANGED <<lastProgress, animationFrame, currentStageName,
                   checkInterval, checkCount, width, frames, statusText,
                   modalShown, outcomes>>

\* The await of checkStatus resumes with the parsed response.
OnResponse(data) ==
    /\ inflight > 0
    /\ inflight' = inflight - 1
    /\ streak' = 0
    /\ IF data.success
       THEN IF data.status = "processing" THEN ProcessingBranch(data)
            ELSE IF data.status = "completed" THEN CompletedBranch
            ELSE IF data.status = "failed" THEN FailedBranch
            ELSE OtherStatusBranch
       ELSE ApiErrorBranch(data)
    /\ UNCHANGED <<videoId, statusElem, progressBar, navigated, currentPage,
                   currentVideoId, requests, routerVars, controllerVars>>

\* The await of checkStatus throws: fetch or response.json() rejected.
OnTransportFailure ==
    /\ inflight > 0
    /\ inflight' = inflight - 1
    /\ streak' = streak + 1
    /\ CatchBlock
    /\ observed' = CatchObserved
    /\ UNCHANGED <<videoId, statusElem, progressBar, lastProgress,
                   animationFrame, currentStageName, checkInterval, width,
                   frames, statusText, navigated, currentPage, currentVideoId,
                   requests, routerVars, controllerVars>>

\* The templates of the document: the elements with id `${page}-template`.
Templates == {"home", "transcriptions", "detail", "about"}

\* setTimeout(..., 300) of loadPage
RenderDelay == 300

\* A setTimeout callback of the router or of a page controller, armed now.
PageTimer(kind, delay, page) ==
    [kind |-> kind, delay |-> delay, page |-> page, due |-> now + delay,
     owner |-> 0]

\* The controls as the template holds them: updatePagination has not
\* written them yet, no tag is selected and the search box is empty.
NoControls == [written |-> FALSE, pages |-> {}, prevDisabled |-> FALSE,
               nextDisabled |-> FALSE, tagFilter |-> "", searchInput |-> ""]

\* The router state and the part of the browser it acts on, as one value.
RouterNow ==
    [currentPage |-> currentPage, currentVideoId |-> currentVideoId,
     container |-> container, controls |-> controls,
     pageTimers |-> pageTimers, hash |-> hash, hashEvents |-> hashEvents]

\* The step leaves the router and its part of the browser as r describes.
SetRouter(r) ==
    /\ currentPage' = r.currentPage
    /\ currentVideoId' = r.currentVideoId
    /\ container' = r.container
    /\ controls' = r.controls
    /\ pageTimers' = r.pageTimers
    /\ hash' = r.hash
    /\ hashEvents' = r.hashEvents

\* The hash navigateTo expects for the router state.
ExpectedHash(page, id) ==
    IF page = "detail" THEN <<"transcription", id>> ELSE <<page>>

\* loadPage(page): the loader replaces what the container held; the
\* not-found message is written at once, a template is rendered by a timer.
loadPage(r, page) ==
    IF page \notin Templates
    THEN [r EXCEPT !.container = "notFound", !.controls = NoControls]
    ELSE [r EXCEPT !.container = "loader", !.controls = NoControls,
                   !.pageTimers = Append(@, PageTimer("render", RenderDelay, page))]

\* navigateTo(page) as a function of the router state r; page is the path
\* split at '/'.  An assignment that changes the hash causes a hashchange
\* event.
Navigated(r, page) ==
    LET isTranscription == Len(page) >= 2 /\ page[1] = "transcription"
        id == IF isTranscription THEN page[2] ELSE r.currentVideoId
        name == IF isTranscription THEN "detail"
                ELSE IF page = <<>> THEN "home"
                ELSE page[1]
        loaded == loadPage([r EXCEPT !.currentVideoId = id,
                                     !.currentPage = name], name)
        expectedHash == ExpectedHash(name, id)
    IN  IF loaded.hash # expectedHash
        THEN [loaded EXCEPT !.hash = expectedHash, !.hashEvents = @ + 1]
        ELSE loaded

\* navigateTo(page) called by the program.
navigateTo(page) == SetRouter(Navigated(RouterNow, page))

\* Navigations are accepted by the model while fewer renders are pending.
MaxPending == 2

\* Pages are opened by the model while the transcriptions page was
\* initialised fewer times.
MaxInits == 2

\* Clicks and filter changes are accepted while fewer list requests are in
\* flight.
MaxListRequests == 2

\* Deletions are confirmed while fewer were confirmed.
MaxDeletes == 1

\* The input events of one burst of search input.
MaxInputs == 2

\* const pagination = { page: 1, limit: 10, total: 0 }
Limit == 10

Pagination(page, total) == [page |-> page, total |-> total]

\* No search input so far.
NoBurst == [events |-> 0, last |-> 0, reloads |-> 0]

\* The router and the page controllers while `page` is displayed and nothing
\* is pending, before the transcriptions page was ever initialised.
InitPageShown(page) ==
    /\ container = page
    /\ pageTimers = <<>>
    /\ hash = <<page>>
    /\ hashEvents = 0
    /\ pagination = Pagination(1, 0)
    /\ clickListeners = 0
    /\ listRequests = <<>>
    /\ controls = NoControls
    /\ deleteRequests = 0
    /\ now = 0
    /\ burst = [controller |-> NoBurst, App |-> NoBurst]

\* timers without its i-th element.
Without(s, i) == SubSeq(s, 1, i - 1) \o SubSeq(s, i + 1, Len(s))

\* The i-th pending timer expires and its callback runs.
OnTimer(i) ==
    LET t == timers[i]
        rest == Without(timers, i)
    IN  /\ IF t.kind \in {"poll", "retry"}
           THEN /\ IssueRequest
                /\ timers' = rest
                /\ UNCHANGED <<modalShown, outcomes, navigated, currentPage,
                               currentVideoId, routerVars>>
           ELSE IF t.kind = "completed"
           THEN /\ modalShown' = FALSE
                /\ outcomes' = Append(outcomes,
                       Outcome("Completed", "processing complete", "redirecting"))
                /\ timers' = Append(rest,
                       Timer("navigate", NavigateDelay, ""))
                /\ UNCHANGED <<inflight, requests, navigated, currentPage,
                               currentVideoId, routerVars>>
           ELSE IF t.kind = "navigate"
           THEN /\ navigated' = Append(navigated, TranscriptionPath(videoId))
                /\ navigateTo(TranscriptionPath(videoId))
                /\ timers' = rest
                /\ UNCHANGED <<inflight, requests, modalShown, outcomes>>
           ELSE IF t.kind = "failed"
           THEN /\ modalShown' = FALSE
                /\ outcomes' = Append(outcomes,
                       Outcome("Failed", "processing failed", "transcription failed"))
                /\ timers' = rest
                /\ UNCHANGED <<inflight, requests, navigated, currentPage,
                               currentVideoId, routerVars>>
           ELSE /\ modalShown' = FALSE
                /\ outcomes' = Append(outcomes,
                       Outcome("Errored", "status check failed", t.msg))
                /\ timers' = rest
                /\ UNCHANGED <<inflight, requests, navigated, currentPage,
                               currentVideoId, routerVars>>
        /\ UNCHANGED <<videoId, statusElem, progressBar, lastProgress,
                       animationFrame, currentStageName, checkInterval,
                       checkCount, width, frames, statusText, streak, observed,
                       controllerVars>>

\* The host renders a frame: the pending frame callbacks run.
OnAnimationFrame ==
    /\ frames # <<>>
    /\ LET start == [w |-> width,
                     f |-> <<>>,
                     h |-> IF animationFrame = "live" THEN "stale"
                                                      ELSE animationFrame]
           a == RunFrames(start, frames)
       IN  /\ width' = a.w
           /\ frames' = a.f
           /\ animationFrame' = a.h
    /\ UNCHANGED <<videoId, statusElem, progressBar, lastProgress,
                   currentStageName, checkInterval, checkCount, timers,
                   inflight, statusText, modalShown, outcomes, navigated,
                   currentPage, currentVideoId, requests, streak, observed,
                   routerVars, controllerVars>>

----------------------------------------------------------------------------
(* The responses the server may give.                                      *)

Response(success, status, progress, stage_name, elapsed_time, error) ==
    [success |-> success, status |-> status, progress |-> progress,
     stage_name |-> stage_name, elapsed_time |-> elapsed_time, error |-> error]

ProcessingReports ==
    { Response(TRUE, "processing", p, s, e, {}) :
        p \in ProgressInputs, s \in StageInputs, e \in ElapsedInputs }

CompletedReport == Response(TRUE, "completed", {}, {}, 0, {})

FailedReport == Response(TRUE, "failed", {}, {}, 0, {})

OtherReport == Response(TRUE, "queued", {}, {}, 0, {})

ApiErrorReports ==
    { Response(FALSE, "", {}, {}, 0, e) : e \in ErrorInputs }

\* The state when monitorTask returns: the modal was shown by showTaskModal
\* and the first checkStatus call has issued its request.  The document is
\* an input: showTaskModal returns silently when an element of the modal is
\* missing and the caller starts the monitor all the same.  #task-status and
\* #task-progress belong to the same modal; a document that lacks the status
\* line is taken to lack the bar too (the poll loop never reads the animator).
Init ==
    /\ videoId \in VideoIds
    /\ statusElem \in BOOLEAN
    /\ progressBar \in (IF statusElem THEN BOOLEAN ELSE {FALSE})
    /\ lastProgress = 0
    /\ animationFrame = "null"
    /\ currentStageName = DefaultStageName
    /\ checkInterval = InitialInterval
    /\ checkCount = 0
    /\ width = InitialWidth
    /\ frames = <<>>
    /\ timers = <<>>
    /\ inflight = 1
    /\ statusText = FixedText("downloading")
    /\ modalShown = TRUE
    /\ outcomes = <<>>
    /\ navigated = <<>>
    /\ currentPage = "home"
    /\ currentVideoId = "null"
    /\ InitPageShown("home")
    /\ requests = 1
    /\ streak = 0
    /\ observed = "none"

Next ==
    \/ \E data \in ProcessingReports : checkCount < MaxChecks /\ OnResponse(data)
    \/ OnResponse(CompletedReport)
    \/ OnResponse(FailedReport)
    \/ OnResponse(OtherReport)
    \/ \E data \in ApiErrorReports : OnResponse(data)
    \/ OnTransportFailure
    \/ \E i \in 1..Len(timers) : OnTimer(i)
    \/ OnAnimationFrame

Spec == Init /\ [][Next]_vars

----------------------------------------------------------------------------
(* Vocabulary of the properties.                                           *)

\* The timers that lead to another status request.
IsPollTimer(t) == t.kind \in {"poll", "retry"}

PollTimers(ts) == { i \in 1..Len(ts) : IsPollTimer(ts[i]) }

\* The schedule table of the polling cadence.
TableInterval(count) ==
    IF count <= 10 THEN 1000 ELSE IF count <= 30 THEN 2000 ELSE 3000

\* Every status request handled so far failed at transport level.
AllFailed == streak = requests - inflight

\* Nothing is pending: no request, no timer, no frame callback.
Quiescent == inflight = 0 /\ timers = <<>> /\ frames = <<>>

ConnectionFailed == Outcome("Errored", "connection failed", "cannot reach server")

\* The step handles some response / some processing report.
SomeProcessingReport == \E data \in ProcessingReports : OnResponse(data)

SomeApiError == \E data \in ApiErrorReports : OnResponse(data)

----------------------------------------------------------------------------
(* C1: in every run of one monitor at most one terminal outcome            *)
(* (Completed, Failed or Errored notification) is delivered, whatever the  *)
(* sequence of poll responses and transport failures.                      *)
C1_AtMostOneOutcome == Len(outcomes) <= 1

\* An outcome delivered by a single transport failure after processing
\* reports had been handled.
C1_Witness ==
    /\ outcomes = <<ConnectionFailed>>
    /\ streak = 1
    /\ checkCount > MaxRetries
    /\ requests > MaxRetries

(* C2: once a poll has observed a terminal condition, no further status    *)
(* request is issued and no further poll or retry timer is armed.          *)
C2_NoPollAfterTerminal ==
    [][observed # "none" =>
          /\ requests' = requests
          /\ Cardinality(PollTimers(timers')) <= Cardinality(PollTimers(timers))]_vars

\* The same with the status line in the document.
C2_WithStatusElement ==
    [][(observed # "none" /\ statusElem) =>
          /\ requests' = requests
          /\ PollTimers(timers') = {}]_vars

(* C3: every processing report increments checkCount and re-arms the poll  *)
(* with the table's interval for the incremented count: 1000 ms up to 10,  *)
(* 2000 ms for 11..30, 3000 ms from 31.                                    *)
C3_ProcessingRearmsPerTable ==
    [][SomeProcessingReport =>
          /\ checkCount' = checkCount + 1
          /\ timers' = Append(timers,
                 Timer("poll", TableInterval(checkCount'), ""))]_vars

\* The same with the status line in the document.
C3_WithStatusElement ==
    [][(SomeProcessingReport /\ statusElem) =>
          /\ checkCount' = checkCount + 1
          /\ timers' = Append(timers,
                 Timer("poll", TableInterval(checkCount'), ""))]_vars

(* C4: checkCount never decreases and is never reset; checkInterval never  *)
(* decreases and only takes the values 1000, 2000 and 3000 ms.             *)
C4_CountAndIntervalMonotone ==
    /\ checkCount = 0
    /\ checkInterval = 1000
    /\ [][/\ checkCount' >= checkCount
          /\ checkInterval' >= checkInterval
          /\ checkInterval' \in {1000, 2000, 3000}]_vars

\* The interval has reached its last value after failures and reports.
C4_Witness ==
    /\ checkInterval = 3000
    /\ checkCount > 30
    /\ requests > checkCount

(* C5: a successful poll resets the transport-failure counter: each of the *)
(* first 5 failures of a streak is retried at 3000 ms and the connection   *)
(* failure is reported only on the 6th consecutive failure.  Stated for a  *)
(* document that holds the status line.                                    *)
C5_RetryBudgetPerStreak ==
    [][(OnTransportFailure /\ statusElem) =>
          IF streak' <= 5
          THEN /\ timers' = Append(timers, Timer("retry", 3000, ""))
               /\ outcomes' = outcomes
          ELSE outcomes' = Append(outcomes, ConnectionFailed)]_vars

(* C6: when every status request of a fresh monitor fails at transport     *)
(* level, each of the first 5 failures leaves exactly one pending timer, a *)
(* 3000 ms retry, and no outcome; the 6th failure delivers the connection  *)
(* failure with nothing re-armed.                                          *)
C6_AllFailuresRun ==
    AllFailed =>
        /\ streak <= 6
        /\ (streak \in 1..5 /\ inflight = 0 =>
                /\ timers = <<Timer("retry", 3000, "")>>
                /\ outcomes = <<>>)
        /\ (streak < 6 => outcomes = <<>> /\ modalShown)
        /\ (streak = 6 =>
                /\ outcomes = <<ConnectionFailed>>
                /\ timers = <<>>
                /\ inflight = 0
                /\ ~modalShown)

\* The sixth failure of an all-failures run has been handled.
C6_Witness == AllFailed /\ streak = 6 /\ outcomes = <<ConnectionFailed>>

(* C7, as stated: five consecutive transport errors from the start yield   *)
(* the Errored outcome after the fifth, and no sixth request is attempted. *)
C7_ErroredAfterFifth ==
    AllFailed =>
        /\ requests <= 5
        /\ (streak = 5 => outcomes = <<ConnectionFailed>>)

(* C7, amended: six consecutive transport errors from the start yield the  *)
(* Errored outcome after the sixth; the fifth error is still retried, so a *)
(* sixth request is attempted, and a seventh never is.                     *)
C7_ErroredAfterSixth ==
    AllFailed =>
        /\ requests <= 6
        /\ (outcomes # <<>> <=> streak = 6)
        /\ (streak = 6 => requests = 6 /\ PollTimers(timers) = {})
        /\ (streak = 5 => (requests = 6) = (inflight = 1))
        /\ (streak = 5 /\ inflight = 0 => Cardinality(PollTimers(timers)) = 1)

\* The sixth request of an all-failures run is in flight.
C7_Witness == AllFailed /\ streak = 5 /\ requests = 6 /\ inflight = 1

\* The reason a success:false response is to be reported with.
ApiErrorReason(data) ==
    IF data.error = {"quota exceeded"}
    THEN "quota exceeded"
    ELSE "cannot get task status"

IsApiErrorTimer(t) == t.kind = "apiError"

\* A success:false response has been handled.
ApiErrorSeen ==
    \/ \E i \in 1..Len(timers) : IsApiErrorTimer(timers[i])
    \/ \E i \in 1..Len(outcomes) : outcomes[i].title = "status check failed"

(* C8: a success:false response is terminal without retry, whatever        *)
(* checkCount is: it leads to exactly one Errored outcome whose reason is  *)
(* the response's error message, or the fallback when there is none, and   *)
(* neither a status request nor a poll or retry timer follows it.          *)
C8_ApiErrorTerminal ==
    /\ [][\A data \in ApiErrorReports : OnResponse(data) =>
              /\ timers' = Append(timers,
                     Timer("apiError", 1000, ApiErrorReason(data)))
              /\ checkCount' = checkCount
              /\ outcomes' = outcomes]_vars
    /\ [][ApiErrorSeen =>
              /\ requests' = requests
              /\ inflight' = 0
              /\ PollTimers(timers') = {}
              /\ (outcomes' # outcomes =>
                     \E i \in 1..Len(timers) :
                         /\ IsApiErrorTimer(timers[i])
                         /\ outcomes' = <<Outcome("Errored",
                                "status check failed", timers[i].msg)>>)]_vars
    /\ [](ApiErrorSeen /\ timers = <<>> =>
              /\ Len(outcomes) = 1
              /\ outcomes[1].kind = "Errored"
              /\ outcomes[1].message \in {"quota exceeded", "cannot get task status"})

\* The server's message reported after more polls than the retry budget.
C8_Witness ==
    /\ outcomes = <<Outcome("Errored", "status check failed", "quota exceeded")>>
    /\ checkCount > MaxRetries
    /\ timers = <<>>

CompletedOutcome == Outcome("Completed", "processing complete", "redirecting")

IsDelivered(o) == \E i \in 1..Len(outcomes) : outcomes[i] = o

FailedOutcome == Outcome("Failed", "processing failed", "transcription failed")

IsFailedTimer(t) == t.kind = "failed"

\* A failed report has been classified: its timer is pending or has fired.
FailedSeen ==
    \/ \E i \in 1..Len(timers) : IsFailedTimer(timers[i])
    \/ IsDelivered(FailedOutcome)

(* C11: a failed report reports nothing by itself and arms the 1500 ms     *)
(* grace timer; the Failed outcome with the generic message is reported    *)
(* exactly once, by the firing of that timer; no status request and no     *)
(* poll or retry timer follows the report.                                 *)
C11_FailedReportedOnce ==
    /\ [][OnResponse(FailedReport) =>
              /\ outcomes' = outcomes
              /\ requests' = requests
              /\ timers' = Append(timers, Timer("failed", 1500, ""))]_vars
    /\ [][outcomes' # outcomes /\ outcomes'[Len(outcomes')].kind = "Failed" =>
              /\ outcomes' = <<FailedOutcome>>
              /\ \E i \in 1..Len(timers) :
                     /\ timers[i] = Timer("failed", 1500, "")
                     /\ timers' = Without(timers, i)]_vars
    /\ [][FailedSeen =>
              /\ requests' = requests
              /\ inflight' = 0
              /\ PollTimers(timers') = {}]_vars
    /\ [](FailedSeen /\ timers = <<>> => outcomes = <<FailedOutcome>>)

\* The same with the status line in the document.
C11_WithStatusElement ==
    /\ [][(OnResponse(FailedReport) /\ statusElem) =>
              /\ outcomes' = outcomes
              /\ requests' = requests
              /\ timers' = Append(timers, Timer("failed", 1500, ""))]_vars
    /\ [](FailedSeen /\ timers = <<>> => outcomes = <<FailedOutcome>>)

(* C12: navigate is called only as a consequence of a Completed outcome:   *)
(* whenever it has been called, a completed report was the terminal        *)
(* condition the polls observed and the Completed outcome is the only      *)
(* outcome delivered; no run that delivers Failed or Errored calls it.     *)
C12_NavigateOnlyAfterCompleted ==
    /\ navigated # <<>> =>
           /\ observed = "completed"
           /\ outcomes = <<CompletedOutcome>>
    /\ (\E i \in 1..Len(outcomes) : outcomes[i].kind \in {"Failed", "Errored"})
           => navigated = <<>>

\* navigate was called in a run whose polls had reported progress.
C12_Witness ==
    /\ navigated # <<>>
    /\ checkCount > 0
    /\ lastProgress > 0

----------------------------------------------------------------------------
(* The animator under arbitrary progress reports: the monitor driven by    *)
(* processing reports whose progress ranges over values inside and outside *)
(* [0, 1], by the completed report and by the host's timers and frames.    *)

\* Processing reports are accepted by this specification while checkCount is
\* below it.
MaxAnimChecks == 2

\* data.progress of the reports, in hundredths: below 0, inside [0, 1], the
\* override threshold 0.99, above 1.
AnimProgressInputs == {{-10}, {30}, {99}, {150}}

AnimReports ==
    { Response(TRUE, "processing", p, {}, e, {}) :
        p \in AnimProgressInputs, e \in ElapsedInputs }

NextAnim ==
    \/ \E data \in AnimReports : checkCount < MaxAnimChecks /\ OnResponse(data)
    \/ OnResponse(CompletedReport)
    \/ \E i \in 1..Len(timers) : OnTimer(i)
    \/ OnAnimationFrame

SpecAnim == Init /\ [][NextAnim]_vars

\* The progress a report carries (0 when the field is absent).
ReportedProgress(data) ==
    IF data.progress = {} THEN 0 ELSE CHOOSE x \in data.progress : TRUE

(* C13: a processing report whose progress is not greater than the         *)
(* previously accepted progress and is below 0.99 leaves the animator      *)
(* alone: lastProgress is unchanged, no pending frame callback is          *)
(* cancelled, none is requested and the bar is not moved.                  *)
C13_RejectedReportIsNoOp ==
    [][\A data \in AnimReports :
          (/\ OnResponse(data)
           /\ ReportedProgress(data) <= lastProgress
           /\ ReportedProgress(data) < 99) =>
              /\ lastProgress' = lastProgress
              /\ frames' = frames
              /\ animationFrame' = animationFrame
              /\ width' = width]_vars

\* Two reports were handled, one accepted with progress 0.30 and one
\* rejected, and the animation toward 30% is still running.
C13_Witness ==
    /\ statusElem
    /\ checkCount = 2
    /\ lastProgress = 30
    /\ frames = <<30>>
    /\ animationFrame = "live"

(* C14: in every reachable state the displayed percent lies in [5, 100],   *)
(* whatever progress values are reported (values outside [0, 1] included)  *)
(* and however frames interleave with the poll responses, the bar having   *)
(* started at 5%.                                                          *)
C14_WidthWithinBounds == 5000 <= width /\ width <= 100000

\* The animation toward a reported progress of 1.5 has run to its end.
C14_Witness ==
    /\ lastProgress = 150
    /\ frames = <<>>
    /\ width > 99000

\* The target the animator was given last: 100% once a completed report was
\* handled, the accepted progress before.
LatestTarget == IF observed = "completed" THEN 100 ELSE lastProgress

(* C15: the animator converges toward the most recently set target only:   *)
(* every pending frame callback moves the bar toward that target, so at    *)
(* most one animation loop is active at any time.                          *)
C15_SingleLoopTowardLatestTarget ==
    /\ Len(frames) <= 1
    /\ \A i \in 1..Len(frames) : frames[i] = LatestTarget

----------------------------------------------------------------------------
(* The scenario processing(0.2), processing(0.6), completed.               *)

\* The response to the n-th status request; the task stays completed.
ScenarioReport(n) ==
    IF n = 1 THEN Response(TRUE, "processing", {20}, {}, 0, {})
    ELSE IF n = 2 THEN Response(TRUE, "processing", {60}, {}, 0, {})
    ELSE CompletedReport

NextScenario ==
    \/ OnResponse(ScenarioReport(requests))
    \/ \E i \in 1..Len(timers) : OnTimer(i)
    \/ OnAnimationFrame

SpecScenario == Init /\ [][NextScenario]_vars

(* C16: in the scenario, with both elements of the modal in the document   *)
(* and whatever the interleaving of frames and timers, the Completed       *)
(* outcome with the videoId is delivered exactly once and the displayed    *)
(* progress reaches 100: never more than one outcome, and when nothing is  *)
(* pending any more the outcome is Completed, navigate was called with the *)
(* videoId's path and the bar is at 100%.                                  *)
C16_ScenarioReaches100 ==
    (statusElem /\ progressBar) =>
        /\ Len(outcomes) <= 1
        /\ Quiescent =>
               /\ outcomes = <<CompletedOutcome>>
               /\ navigated = << <<"transcription", videoId>> >>
               /\ width = 100000

----------------------------------------------------------------------------
(* One animation loop for a fixed target: animateProgress(target) called   *)
(* on a bar of a given width, then the frames the host renders.            *)

\* style.width when the loop starts.
LoopStartWidths == {5000, 42500, 100000}

\* The targetProgress of the loop, in hundredths.
LoopTargets == {0, 30, 100, 150}

InitLoop ==
    /\ videoId \in VideoIds
    /\ statusElem = TRUE
    /\ progressBar = TRUE
    /\ \E w \in LoopStartWidths, target \in LoopTargets :
           LET a == [w |-> w, f |-> <<>>, h |-> "null"]
           IN  /\ lastProgress = target
               /\ width = animateProgress(a, target).w
               /\ frames = animateProgress(a, target).f
               /\ animationFrame = animateProgress(a, target).h
    /\ currentStageName = DefaultStageName
    /\ checkInterval = InitialInterval
    /\ checkCount = 0
    /\ timers = <<>>
    /\ inflight = 0
    /\ statusText = FixedText("downloading")
    /\ modalShown = TRUE
    /\ outcomes = <<>>
    /\ navigated = <<>>
    /\ currentPage = "home"
    /\ currentVideoId = "null"
    /\ InitPageShown("home")
    /\ requests = 1
    /\ streak = 0
    /\ observed = "none"

NextLoop == OnAnimationFrame

SpecLoop == InitLoop /\ [][NextLoop]_vars

\* The frames the host still renders until no callback of animator state a
\* is pending.
RECURSIVE FramesUntilStop(_)
FramesUntilStop(a) ==
    IF a.f = <<>>
    THEN 0
    ELSE 1 + FramesUntilStop(RunFrames([a EXCEPT !.f = <<>>], a.f))

\* The clamped target in the units of width.
ClampedTarget(progress) ==
    IF progress * 1000 < 5000 THEN 5000
    ELSE IF progress * 1000 > 100000 THEN 100000
    ELSE progress * 1000

(* C17: for a fixed target and a single loop the frame steps stop          *)
(* re-scheduling after a bounded number of steps, at most 50 (the first    *)
(* call included) even for the largest gap of 95 points, and when the loop *)
(* has stopped the displayed percent is within 0.5 of the target.          *)
C17_LoopBounded ==
    /\ 1 + FramesUntilStop(Anim) <= 50
    /\ frames = <<>> =>
           /\ width - ClampedTarget(lastProgress) <= 500
           /\ ClampedTarget(lastProgress) - width <= 500

\* The loop over the largest gap, from 5% to 100%, has stopped.
C17_Witness ==
    /\ lastProgress = 100
    /\ frames = <<>>
    /\ width < 100000
    /\ width > 99000

(* C18: an animation step either snaps to the target and stops, or moves   *)
(* the bar and schedules another step; hence whenever the loop for a       *)
(* target has stopped, the displayed percent equals that target exactly.   *)
C18_StoppedAtTarget ==
    /\ [][OnAnimationFrame =>
              \/ frames' # <<>>
              \/ width' = ClampedTarget(lastProgress)]_vars
    /\ [](frames = <<>> => width = ClampedTarget(lastProgress))

(* C19: poll completions arriving after a terminal state are dropped: once *)
(* a poll has observed a terminal condition, a step in which the           *)
(* poll-completion handler runs (a response or a transport failure is      *)
(* handled) produces no outcome and arms no timer.                         *)
C19_LateCompletionDropped ==
    [][(observed # "none" /\ inflight' < inflight) =>
          /\ outcomes' = outcomes
          /\ timers' = timers]_vars

----------------------------------------------------------------------------
(* The monitor while the user navigates: a click on a navigation link or a *)
(* hashchange calls navigateTo at any moment.                              *)

\* The pages a user navigates to, as paths split at '/'.
UserPages == {<<"transcriptions">>}

\* App.taskCheckInterval: null, and no statement assigns it.
taskCheckInterval == "null"

\* The user navigates to another page.  App.navigateTo clears the interval
\* App.taskCheckInterval holds; the router's navigateTo clears nothing.
UserNavigates ==
    /\ Len(pageTimers) < MaxPending
    /\ \E page \in UserPages :
           SetRouter(Navigated([RouterNow EXCEPT !.hash = page], page))
    /\ timers' = IF taskCheckInterval # "null"
                 THEN Without(timers, taskCheckInterval)
                 ELSE timers
    /\ UNCHANGED <<videoId, statusElem, progressBar, lastProgress,
                   animationFrame, currentStageName, checkInterval,
                   checkCount, width, frames, inflight, statusText,
                   modalShown, outcomes, navigated, requests, streak,
                   observed, controllerVars>>

NextNav ==
    \/ Next
    \/ UserNavigates

SpecNav == Init /\ [][NextNav]_vars

(* C20: once the user has navigated to another page while the monitor was  *)
(* running, no further poll fires, no frame callback is re-armed and no UI *)
(* update or outcome is produced by that monitor: no status request is     *)
(* issued, the bar and the status line are not written, nothing is         *)
(* notified and navigate is not called.                                    *)
C20_NothingAfterTeardown ==
    [][currentPage = "transcriptions" =>
          /\ requests' = requests
          /\ frames' \in {frames, <<>>}
          /\ width' = width
          /\ statusText' = statusText
          /\ outcomes' = outcomes
          /\ navigated' = navigated]_vars

----------------------------------------------------------------------------
\* The pending timers of one kind.
TimersOfKind(ts, kind) == { i \in 1..Len(ts) : ts[i].kind = kind }

(* C21: at any time one monitor has at most one poll timer and at most one *)
(* retry timer outstanding, and each re-arm schedules exactly one future   *)
(* poll: a step adds at most one poll or retry timer, and the firing of    *)
(* such a timer issues exactly one status request.                         *)
C21_OneTimerOfEachKind ==
    /\ [](Cardinality(TimersOfKind(timers, "poll")) <= 1)
    /\ [](Cardinality(TimersOfKind(timers, "retry")) <= 1)
    /\ [][/\ Cardinality(PollTimers(timers')) <= Cardinality(PollTimers(timers)) + 1
          /\ Cardinality(PollTimers(timers')) < Cardinality(PollTimers(timers))
                 => requests' = requests + 1]_vars

\* A retry timer is outstanding in a run whose poll timers have fired.
C21_Witness ==
    /\ TimersOfKind(timers, "retry") # {}
    /\ statusElem
    /\ requests > 2
    /\ lastProgress > 0

----------------------------------------------------------------------------
(* Fair scheduling: a pending timer eventually expires and a status        *)
(* request in flight is eventually answered or fails.                      *)

TimerFires == \E i \in 1..Len(timers) : OnTimer(i)

PollAnswered ==
    \/ \E data \in ProcessingReports : checkCount < MaxChecks /\ OnResponse(data)
    \/ OnResponse(CompletedReport)
    \/ OnResponse(FailedReport)
    \/ OnResponse(OtherReport)
    \/ \E data \in ApiErrorReports : OnResponse(data)
    \/ OnTransportFailure

SpecFair == Spec /\ WF_vars(TimerFires) /\ WF_vars(PollAnswered)

\* A terminal outcome has been delivered and polling has stopped.
Terminated == outcomes # <<>> /\ inflight = 0 /\ PollTimers(timers) = {}

(* C22: under fair scheduling of timers and responses, a run in which a    *)
(* poll is answered with completed, failed or success:false eventually     *)
(* delivers a terminal outcome and stops polling, and so does a run whose  *)
(* requests all fail at transport level from some point on.                *)
C22_EventuallyTerminates ==
    /\ (observed \in {"completed", "failed", "apiError"}) ~> Terminated
    /\ (streak > 0) ~> (Terminated \/ streak = 0)

\* The same with the status line in the document.
C22_WithStatusElement ==
    /\ (statusElem /\ observed \in {"completed", "failed", "apiError"})
           ~> Terminated
    /\ (statusElem /\ streak > 0) ~> (Terminated \/ streak = 0)

----------------------------------------------------------------------------
(* The status line under arbitrary processing reports: elapsed times on    *)
(* both sides of the minute and hour marks, stage names present, empty and *)
(* absent.                                                                 *)

\* Processing reports are accepted by this specification while checkCount is
\* below it.
MaxStageChecks == 2

\* data.elapsed_time of the reports, in tenths of a second.
StageElapsedInputs == {0, 9, 599, 600, 754, 35999, 36000, 36615}

\* data.stage_name of the reports ({} = field absent).
StageNameInputs == {{}, {""}, {"transcribing"}, {"downloading audio"}}

StageReports ==
    { Response(TRUE, "processing", {}, s, e, {}) :
        s \in StageNameInputs, e \in StageElapsedInputs }

NextStage ==
    \/ \E data \in StageReports : checkCount < MaxStageChecks /\ OnResponse(data)
    \/ \E i \in 1..Len(timers) : OnTimer(i)

SpecStage == Init /\ [][NextStage]_vars

\* The number a string of decimal digits denotes.
RECURSIVE ParseDigits(_)
ParseDigits(str) ==
    IF str = <<>>
    THEN 0
    ELSE 10 * ParseDigits(SubSeq(str, 1, Len(str) - 1))
         + (CHOOSE d \in 0..9 : DigitChars[d + 1] = str[Len(str)])

\* The stage name a report is shown with: its own, or the current one when
\* the report carries none.
StageNameUsed(data) ==
    IF data.stage_name \in {{}, {""}}
    THEN currentStageName
    ELSE CHOOSE x \in data.stage_name : TRUE

(* C23: for every processing report with elapsed time e >= 0 the status    *)
(* line written shows minutes m = floor(floor(e) / 60) and seconds         *)
(* s = floor(e) mod 60, the seconds with two digits, so that 0 <= s <= 59  *)
(* and 60 * m + s = floor(e), after the stage name used for that report.   *)
C23_StageTextMinutesSeconds ==
    [][\A data \in StageReports :
          (OnResponse(data) /\ statusElem) =>
              LET m == ParseDigits(statusText'.minutes)
                  sec == ParseDigits(statusText'.seconds)
              IN  /\ statusText'.kind = "stage"
                  /\ statusText'.stage = StageNameUsed(data)
                  /\ Len(statusText'.seconds) = 2
                  /\ 0 <= sec /\ sec <= 59
                  /\ 60 * m + sec = data.elapsed_time \div 10
                  /\ \A i \in 1..Len(statusText'.minutes) :
                         \E d \in 0..9 : statusText'.minutes[i] = DigitChars[d + 1]]_vars

\* A status line of one hour, one minute and one second: 61 minutes, "01".
C23_Witness ==
    /\ statusText.kind = "stage"
    /\ statusText.minutes = <<"6", "1">>
    /\ statusText.seconds = <<"0", "1">>

\* The reports that carry no stage name.
UnnamedStageReports == { data \in StageReports : data.stage_name = {} }

(* C24, as stated: when a processing report omits stage_name, the label    *)
(* shown is the default label, whatever names earlier reports carried.     *)
C24_DefaultLabelWhenOmitted ==
    [][\A data \in UnnamedStageReports :
          (OnResponse(data) /\ statusElem) =>
              statusText'.stage = "processing"]_vars

(* C24, amended: when a processing report omits stage_name, the label      *)
(* shown is the name of the most recent report that carried a non-empty    *)
(* one, and the default label when no report has carried one yet: the      *)
(* current name starts as the default, is replaced by every non-empty name *)
(* reported, is kept by every other step, and is what an unnamed report is *)
(* shown with.                                                             *)
C24_LatestLabelWhenOmitted ==
    /\ currentStageName = "processing"
    /\ [][\A data \in StageReports :
              OnResponse(data) =>
                  /\ currentStageName' = StageNameUsed(data)
                  /\ statusElem => statusText'.stage = StageNameUsed(data)]_vars
    /\ [][currentStageName' # currentStageName =>
              \E data \in StageReports \ UnnamedStageReports :
                  /\ OnResponse(data)
                  /\ data.stage_name = {currentStageName'}]_vars

\* A second report is shown with a name other than the default while the
\* first poll timer of the run has fired.
C24_Witness ==
    /\ statusElem
    /\ checkCount = 2
    /\ statusText.kind = "stage"
    /\ statusText.stage = "downloading audio"
    /\ currentStageName = "downloading audio"

----------------------------------------------------------------------------
(* The second implementation: App.monitorTask of app.js, on the same       *)
(* variables.  Its checkStatus is the promise chain                        *)
(* fetch(...).then(response => response.json()).then(data => ...)          *)
(* .catch(error => ...): the catch handler receives the rejections of      *)
(* fetch and of response.json() and the exceptions of the data handler.    *)

\* One call of App.monitorTask's animateProgress(targetProgress).
App_animateProgress(a, targetProgress) ==
    IF ~progressBar
    THEN a
    ELSE LET currentWidth == a.w
             targetWidth == Max(5000, Min(100000, targetProgress * 1000))
             newWidth == currentWidth + Tenth(targetWidth - currentWidth)
         IN  IF Abs(targetWidth - currentWidth) < 500
             THEN [a EXCEPT !.w = targetWidth]
             ELSE IF Abs(newWidth - targetWidth) > 500
                  THEN [w |-> newWidth,
                        f |-> Append(a.f, targetProgress),
                        h |-> "live"]
                  ELSE [a EXCEPT !.w = newWidth]

RECURSIVE App_RunFrames(_, _)
App_RunFrames(a, callbacks) ==
    IF callbacks = <<>>
    THEN a
    ELSE App_RunFrames(App_animateProgress(a, Head(callbacks)), Tail(callbacks))

\* Mutant of App_CatchBlock: a budget of 3 retries.
MutApp_CatchBlock_ThreeRetries ==
    IF checkCount < 3
    THEN /\ timers' = Append(timers, Timer("retry", 3000, ""))
         /\ checkCount' = checkCount + 1
         /\ UNCHANGED <<modalShown, outcomes>>
    ELSE /\ modalShown' = FALSE
         /\ outcomes' = Append(outcomes,
                Outcome("Errored", "connection failed", "cannot reach server"))
         /\ UNCHANGED <<timers, checkCount>>

\* The catch handler of the promise chain.
App_CatchBlock ==
    IF checkCount < 5
    THEN /\ timers' = Append(timers, Timer("retry", 3000, ""))
         /\ checkCount' = checkCount + 1
         /\ UNCHANGED <<modalShown, outcomes>>
    ELSE /\ modalShown' = FALSE
         /\ outcomes' = Append(outcomes,
                Outcome("Errored", "connection failed", "cannot reach server"))
         /\ UNCHANGED <<timers, checkCount>>

\* data.success, status === 'processing'
App_ProcessingBranch(data) ==
    LET progress == OrElseNumber(data.progress, 0)
        stageName == OrElseString(data.stage_name, currentStageName)
        accepted == progress > lastProgress \/ progress >= 99
        a == IF accepted
             THEN App_animateProgress(cancelAnimationFrame(Anim), progress)
             ELSE Anim
        elapsedTime == Floor(data.elapsed_time, 10)
        minutes == Floor(elapsedTime, 60)
        seconds == JsRem(elapsedTime, 60)
        count == checkCount + 1
        first == IF count > 10 /\ checkInterval < 3000 THEN 2000
                                                      ELSE checkInterval
        second == IF count > 30 /\ first < 5000 THEN 3000 ELSE first
    IN  /\ currentStageName' = stageName
        /\ width' = a.w
        /\ frames' = a.f
        /\ animationFrame' = a.h
        /\ lastProgress' = IF accepted THEN progress ELSE lastProgress
        /\ IF statusElem
           THEN /\ statusText' = [kind |-> "stage",
                                  stage |-> stageName,
                                  minutes |-> toString(minutes),
                                  seconds |-> padStart(toString(seconds), 2, "0")]
                /\ checkCount' = count
                /\ checkInterval' = second
                /\ timers' = Append(timers, Timer("poll", second, ""))
                /\ observed' = observed
                /\ UNCHANGED <<modalShown, outcomes>>
           ELSE \* TypeError at .textContent, caught by the catch handler
                /\ App_CatchBlock
                /\ observed' = CatchObserved
                /\ UNCHANGED <<statusText, checkInterval>>

\* data.success, status === 'completed'
App_CompletedBranch ==
    LET a == App_animateProgress(Anim, 100)
    IN  /\ width' = a.w
        /\ frames' = a.f
        /\ animationFrame' = a.h
        /\ IF statusElem
           THEN /\ statusText' = FixedText("completed")
                /\ timers' = Append(timers, Timer("completed", 1500, ""))
                /\ UNCHANGED <<checkCount, modalShown, outcomes>>
           ELSE /\ App_CatchBlock
                /\ UNCHANGED statusText
        /\ observed' = IF observed = "none" THEN "completed" ELSE observed
        /\ UNCHANGED <<lastProgress, currentStageName, checkInterval>>

\* data.success, status === 'failed'
App_FailedBranch ==
    /\ IF statusElem
       THEN /\ statusText' = FixedText("failed")
            /\ timers' = Append(timers, Timer("failed", 1500, ""))
            /\ UNCHANGED <<checkCount, modalShown, outcomes>>
       ELSE /\ App_CatchBlock
            /\ UNCHANGED statusText
    /\ observed' = IF observed = "none" THEN "failed" ELSE observed
    /\ UNCHANGED <<lastProgress, animationFrame, currentStageName,
                   checkInterval, width, frames>>

\* !data.success
App_ApiErrorBranch(data) ==
    /\ timers' = Append(timers,
           Timer("apiError", 1000, OrElseString(data.error, "cannot get task status")))
    /\ observed' = IF observed = "none" THEN "apiError" ELSE observed
    /\ UNCHANGED <<lastProgress, animationFrame, currentStageName,
                   checkInterval, checkCount, width, frames, statusText,
                   modalShown, outcomes>>

\* The data handler of the promise chain runs on the parsed response.
App_OnResponse(data) ==
    /\ inflight > 0
    /\ inflight' = inflight - 1
    /\ streak' = 0
    /\ IF data.success
       THEN IF data.status = "processing" THEN App_ProcessingBranch(data)
            ELSE IF data.status = "completed" THEN App_CompletedBranch
            ELSE IF data.status = "failed" THEN App_FailedBranch
            ELSE UNCHANGED <<lastProgress, animationFrame, currentStageName,
                             checkInterval, checkCount, width, frames, timers,
                             statusText, modalShown, outcomes, observed>>
       ELSE App_ApiErrorBranch(data)
    /\ UNCHANGED <<videoId, statusElem, progressBar, navigated, currentPage,
                   currentVideoId, requests, routerVars, controllerVars>>

\* fetch or response.json() rejects.
App_OnTransportFailure ==
    /\ inflight > 0
    /\ inflight' = inflight - 1
    /\ streak' = streak + 1
    /\ App_CatchBlock
    /\ observed' = CatchObserved
    /\ UNCHANGED <<videoId, statusElem, progressBar, lastProgress,
                   animationFrame, currentStageName, checkInterval, width,
                   frames, statusText, navigated, currentPage, currentVideoId,
                   requests, routerVars, controllerVars>>

\* App.loadPage(page): the not-found message at once, a template by a timer.
App_loadPage(r, page) ==
    IF page \notin Templates
    THEN [r EXCEPT !.container = "notFound", !.controls = NoControls]
    ELSE [r EXCEPT !.container = "loader", !.controls = NoControls,
                   !.pageTimers = Append(@, PageTimer("render", 300, page))]

\* App.navigateTo(page) on App's page state; page is the path split at '/'.
\* (The interval it clears is handled by its callers in this model.)
App_navigateTo(page) ==
    LET isTranscription == Len(page) >= 2 /\ page[1] = "transcription"
        id == IF isTranscription THEN page[2] ELSE currentVideoId
        name == IF isTranscription THEN "detail"
                ELSE IF page = <<>> THEN "home"
                ELSE page[1]
        loaded == App_loadPage([RouterNow EXCEPT !.currentVideoId = id,
                                                !.currentPage = name], name)
        expectedHash == IF name = "detail" THEN <<"transcription", id>>
                                            ELSE <<name>>
    IN  SetRouter(IF loaded.hash # expectedHash
                  THEN [loaded EXCEPT !.hash = expectedHash,
                                      !.hashEvents = @ + 1]
                  ELSE loaded)

\* The i-th pending timer of App.monitorTask expires and its callback runs.
App_OnTimer(i) ==
    LET t == timers[i]
        rest == Without(timers, i)
    IN  /\ IF t.kind \in {"poll", "retry"}
           THEN /\ inflight' = inflight + 1
                /\ requests' = requests + 1
                /\ timers' = rest
                /\ UNCHANGED <<modalShown, outcomes, navigated, currentPage,
                               currentVideoId, routerVars>>
           ELSE IF t.kind = "completed"
           THEN /\ modalShown' = FALSE
                /\ outcomes' = Append(outcomes,
                       Outcome("Completed", "processing complete", "redirecting"))
                /\ timers' = Append(rest, Timer("navigate", 1000, ""))
                /\ UNCHANGED <<inflight, requests, navigated, currentPage,
                               currentVideoId, routerVars>>
           ELSE IF t.kind = "navigate"
           THEN /\ navigated' = Append(navigated, <<"transcription", videoId>>)
                /\ App_navigateTo(<<"transcription", videoId>>)
                /\ timers' = IF taskCheckInterval # "null"
                             THEN Without(rest, taskCheckInterval)
                             ELSE rest
                /\ UNCHANGED <<inflight, requests, modalShown, outcomes>>
           ELSE IF t.kind = "failed"
           THEN /\ modalShown' = FALSE
                /\ outcomes' = Append(outcomes,
                       Outcome("Failed", "processing failed", "transcription failed"))
                /\ timers' = rest
                /\ UNCHANGED <<inflight, requests, navigated, currentPage,
                               currentVideoId, routerVars>>
           ELSE /\ modalShown' = FALSE
                /\ outcomes' = Append(outcomes,
                       Outcome("Errored", "status check failed", t.msg))
                /\ timers' = rest
                /\ UNCHANGED <<inflight, requests, navigated, currentPage,
                               currentVideoId, routerVars>>
        /\ UNCHANGED <<videoId, statusElem, progressBar, lastProgress,
                       animationFrame, currentStageName, checkInterval,
                       checkCount, width, frames, statusText, streak, observed,
                       controllerVars>>

\* The host renders a frame: App.monitorTask's pending frame callbacks run.
App_OnAnimationFrame ==
    /\ frames # <<>>
    /\ LET start == [w |-> width,
                     f |-> <<>>,
                     h |-> IF animationFrame = "live" THEN "stale"
                                                      ELSE animationFrame]
           a == App_RunFrames(start, frames)
       IN  /\ width' = a.w
           /\ frames' = a.f
           /\ animationFrame' = a.h
    /\ UNCHANGED <<videoId, statusElem, progressBar, lastProgress,
                   currentStageName, checkInterval, checkCount, timers,
                   inflight, statusText, modalShown, outcomes, navigated,
                   currentPage, currentVideoId, requests, streak, observed,
                   routerVars, controllerVars>>

NextApp ==
    \/ \E data \in ProcessingReports :
           checkCount < MaxChecks /\ App_OnResponse(data)
    \/ App_OnResponse(CompletedReport)
    \/ App_OnResponse(FailedReport)
    \/ App_OnResponse(OtherReport)
    \/ \E data \in ApiErrorReports : App_OnResponse(data)
    \/ App_OnTransportFailure
    \/ \E i \in 1..Len(timers) : App_OnTimer(i)
    \/ App_OnAnimationFrame

\* Both implementations started on the same document and fed the same poll
\* results: each step is taken by one of them.
NextBoth ==
    \/ Next
    \/ NextApp

SpecBoth == Init /\ [][NextBoth]_vars

\* Every response of the model.
AllReports ==
    ProcessingReports \cup {CompletedReport, FailedReport, OtherReport}
        \cup ApiErrorReports

(* C25: monitorTask and App.monitorTask are behaviourally equivalent: from *)
(* the same state and on the same poll result, timer expiry or frame, a    *)
(* step is a step of the one exactly if it is a step of the other, so the  *)
(* armed timers, the progress and stage updates, the outcome and           *)
(* checkCount, checkInterval and lastProgress agree after every step.      *)
C25_SameSteps ==
    [][/\ \A data \in AllReports : OnResponse(data) <=> App_OnResponse(data)
       /\ OnTransportFailure <=> App_OnTransportFailure
       /\ \A i \in 1..Len(timers) : OnTimer(i) <=> App_OnTimer(i)
       /\ OnAnimationFrame <=> App_OnAnimationFrame]_vars

\* Both implementations have gone through processing reports at the second
\* interval, a retry and the completed report to the navigation.
C25_Witness ==
    /\ navigated = << <<"transcription", videoId>> >>
    /\ checkInterval = 2000
    /\ lastProgress > 0
    /\ currentPage = "detail"
    /\ currentVideoId = videoId

----------------------------------------------------------------------------
OutcomeScheduled ==
    \E i \in 1..Len(timers) : timers[i].kind \in {"completed", "failed", "apiError"}

(* C27: after the handling of any poll result the monitor is never stuck:  *)
(* when no status request is in flight, either exactly one timer for the   *)
(* next poll is pending, or a terminal outcome has been delivered or is    *)
(* scheduled for delivery; this for every response, a success:true         *)
(* response with a status other than processing, completed and failed      *)
(* included.                                                               *)
C27_NeverStuck ==
    inflight = 0 =>
        \/ Cardinality(PollTimers(timers)) = 1
        \/ outcomes # <<>>
        \/ OutcomeScheduled

----------------------------------------------------------------------------
(* C28: the displayed percent never decreases during a run: for any        *)
(* sequence of processing reports, optionally followed by completed, and   *)
(* any interleaving of frames, each write to the bar is greater than or    *)
(* equal to the value before it.                                           *)
C28_DisplayNeverDecreases == [][width' >= width]_vars

(* C29: lastProgress never decreases except through the 0.99 override: for *)
(* every processing report the new lastProgress is at least the smaller of *)
(* the old lastProgress and 0.99, and at least the old lastProgress when   *)
(* the reported progress is below 0.99; no other step changes it.          *)
C29_LastProgressMonotone ==
    /\ [][\A data \in AnimReports :
              OnResponse(data) =>
                  /\ lastProgress' >= (IF lastProgress < 99 THEN lastProgress ELSE 99)
                  /\ ReportedProgress(data) < 99 => lastProgress' >= lastProgress]_vars
    /\ [][lastProgress' # lastProgress =>
              \E data \in AnimReports : OnResponse(data)]_vars

\* The override has lowered lastProgress: the bar stands above 99.5%, where
\* only the loop toward a report above 0.99 can have brought it.
C29_Witness ==
    /\ lastProgress = 99
    /\ width > 99500

----------------------------------------------------------------------------
(* C30: polling is strictly sequential: the first status request is issued *)
(* at start with no delay, at most one status request is in flight at any  *)
(* time, a timer for the next poll is armed only by the handling of the    *)
(* previous response or failure, and a pending poll or retry timer never   *)
(* coexists with a request in flight.                                      *)
C30_SequentialPolling ==
    /\ inflight = 1 /\ requests = 1 /\ timers = <<>>
    /\ [](inflight \in {0, 1})
    /\ [](inflight = 1 => PollTimers(timers) = {})
    /\ [][Cardinality(PollTimers(timers')) > Cardinality(PollTimers(timers)) =>
              /\ inflight = 1
              /\ inflight' = 0]_vars
    /\ [][requests' # requests =>
              /\ requests' = requests + 1
              /\ inflight = 0
              /\ inflight' = 1
              /\ Cardinality(PollTimers(timers)) = 1
              /\ PollTimers(timers') = {}]_vars

\* The fourth status request is in flight and no timer is pending: three
\* polls have been answered and handled one after the other.
C30_Witness ==
    /\ inflight = 1
    /\ requests = 4
    /\ timers = <<>>
    /\ statusElem
    /\ streak = 0

----------------------------------------------------------------------------
(* C31: a transport failure leaves checkInterval, lastProgress, the        *)
(* current stage name and the animation (target, handle, pending frames,   *)
(* width) and the status text unchanged; it changes checkCount by at most  *)
(* one and the timers by at most the retry it arms.  As failures only      *)
(* count while checkCount is below 5, the schedule's equality              *)
(* checkInterval = table(checkCount) holds in every reachable state.       *)
C31_FailureFrameAndTable ==
    /\ [][OnTransportFailure =>
              /\ UNCHANGED <<checkInterval, lastProgress, currentStageName,
                             animationFrame, frames, width, statusText>>
              /\ checkCount' \in {checkCount, checkCount + 1}
              /\ timers' \in {timers, Append(timers, Timer("retry", 3000, ""))}]_vars
    /\ [](checkInterval = TableInterval(checkCount))

\* A transport failure after an accepted progress report has been counted
\* and retried: the retry is pending, the progress and the interval stand.
C31_Witness ==
    /\ streak = 1
    /\ checkCount = 5
    /\ checkInterval = 1000
    /\ lastProgress > 0
    /\ TimersOfKind(timers, "retry") # {}
    /\ outcomes = <<>>

(* C32: a response that was received is never handled as a transport      *)
(* failure: the step that handles a processing or completed response arms  *)
(* no 3000 ms retry timer and reports no connection-failed outcome; it     *)
(* arms the poll timer (processing) or the completed timer (completed),    *)
(* also when the status text element is absent.                            *)
C32_ResponseNeverTakesCatch ==
    [][\A data \in ProcessingReports \cup {CompletedReport} :
           OnResponse(data) =>
               /\ outcomes' = outcomes
               /\ Len(timers') = Len(timers) + 1
               /\ timers'[Len(timers')].kind =
                      (IF data.status = "processing" THEN "poll" ELSE "completed")]_vars

----------------------------------------------------------------------------
(* The router's events and the page controllers.                           *)

\* Math.ceil(a / b) for a >= 0
Ceil(a, b) == (a + b - 1) \div b

\* Math.ceil(pagination.total / pagination.limit)
MaxPage(total) == Ceil(total, Limit)

\* getCurrentPage() on the router state r
getCurrentPage(r) == [page |-> r.currentPage, videoId |-> r.currentVideoId]

\* obj[key] of JavaScript: undefined when obj has no such property.
Property(obj, key) == IF key \in DOMAIN obj THEN obj[key] ELSE "undefined"

\* window.location.hash || '#home', without the '#'
HashPage(h) == IF h = <<>> THEN <<"home">> ELSE h

\* The data-page buttons updatePagination writes for page and total.
PageButtons(page, total) ==
    LET maxPage == MaxPage(total)
        first == Max(1, page - 2)
        endPage == Min(maxPage, first + 4)
        startPage == IF endPage - first < 4 /\ first > 1
                     THEN Max(1, endPage - 4)
                     ELSE first
    IN  (IF startPage > 1 THEN {1} ELSE {})
            \cup (startPage..endPage)
            \cup (IF endPage < maxPage THEN {maxPage} ELSE {})

\* updatePagination(pagination) on the controls c of the shown page: it
\* returns when the controls are not in the document.
updatePagination(shown, c, p) ==
    IF shown # "transcriptions"
    THEN c
    ELSE [c EXCEPT !.written = TRUE,
                   !.pages = PageButtons(p.page, p.total),
                   !.prevDisabled = p.page <= 1,
                   !.nextDisabled = p.page >= MaxPage(p.total)]

\* The pagination state and the list requests in flight, as one value.
ListNow == [page |-> pagination.page, total |-> pagination.total,
            requests |-> listRequests]

\* The step leaves the pagination and the list requests as st describes.
SetList(st) ==
    /\ pagination' = Pagination(st.page, st.total)
    /\ listRequests' = st.requests

\* What is displayed, as loadTranscriptions reads it from the document.
Document(shown, c) ==
    [shown |-> shown, tagFilter |-> c.tagFilter, searchInput |-> c.searchInput]

\* api.fetchTranscriptions(limit, offset, tagFilter, searchQuery): the part
\* of the request the total of the answer depends on.
ListRequest(tagFilter, searchQuery) ==
    [tagFilter |-> tagFilter, searchQuery |-> searchQuery]

\* loadTranscriptions() up to its await: it returns when #transcriptions-list
\* is not in the document, and issues the list request otherwise.
loadTranscriptions(doc, st) ==
    IF doc.shown # "transcriptions" THEN st
    ELSE [st EXCEPT !.requests =
              Append(@, ListRequest(doc.tagFilter, doc.searchInput))]

searchTranscriptions(doc, st) ==
    loadTranscriptions(doc, [st EXCEPT !.page = 1])

filterByTag(doc, st) ==
    loadTranscriptions(doc, [st EXCEPT !.page = 1])

prevPage(doc, st) ==
    IF st.page > 1
    THEN loadTranscriptions(doc, [st EXCEPT !.page = @ - 1])
    ELSE st

nextPage(doc, st) ==
    LET maxPage == MaxPage(st.total)
    IN  IF st.page < maxPage
        THEN loadTranscriptions(doc, [st EXCEPT !.page = @ + 1])
        ELSE st

goToPage(doc, st, page) ==
    loadTranscriptions(doc, [st EXCEPT !.page = page])

\* The elements a click may hit: the two arrows and a data-page button.
PrevControl == [id |-> "prev-page", dataPage |-> 0]
NextControl == [id |-> "next-page", dataPage |-> 0]
PageControl(n) == [id |-> "pagination-btn", dataPage |-> n]

\* The click listener initTranscriptionsPage adds to document.
ClickListener(doc, st, target) ==
    IF target.id = "prev-page" THEN prevPage(doc, st)
    ELSE IF target.id = "next-page" THEN nextPage(doc, st)
    ELSE IF target.id = "pagination-btn" THEN goToPage(doc, st, target.dataPage)
    ELSE st

\* One click event: every listener registered on document runs, one after
\* the other.
RECURSIVE DispatchClick(_, _, _, _)
DispatchClick(doc, st, target, listeners) ==
    IF listeners = 0 THEN st
    ELSE DispatchClick(doc, ClickListener(doc, st, target), target,
                       listeners - 1)


\* setTimeout delays of confirmDeleteTranscription and of the debounced
\* search handlers.
BackDelay == 1000
FallbackDelay == 100
SearchDelay == 300

\* The timer a debounced function arms; owner tells the debounced functions
\* apart (the n-th initialisation of the transcriptions page made the n-th).
SearchTimer(kind, owner) ==
    [kind |-> kind, delay |-> SearchDelay, page |-> "", due |-> now + SearchDelay,
     owner |-> owner]

\* The variables of the task monitor.
monitorVars == <<videoId, statusElem, progressBar, lastProgress,
                 animationFrame, currentStageName, checkInterval, checkCount,
                 width, frames, timers, inflight, statusText, modalShown,
                 navigated, requests, streak, observed>>

\* The history of search input after one more input event at the time now:
\* an event 300 ms or more after the previous one starts a new burst.
InputLogged(b) ==
    IF b.events = 0 \/ now - b.last >= SearchDelay
    THEN [events |-> 1, last |-> now, reloads |-> 0]
    ELSE [b EXCEPT !.events = @ + 1, !.last = now]

\* The history after one more reload of the list by the search handler.
ReloadLogged(b) == [b EXCEPT !.reloads = @ + 1]

\* The hashchange listener of initRouter runs for a change of the hash that
\* the user has made (a link, the address bar, the back button).
OnHashChangeTo(h) ==
    /\ h # hash
    /\ Len(pageTimers) < MaxPending
    /\ clickListeners < MaxInits
    /\ SetRouter(Navigated([RouterNow EXCEPT !.hash = h], HashPage(h)))
    /\ UNCHANGED <<monitorVars, outcomes, controllerVars>>

\* The hashchange listener runs for a change of the hash the program made.
OnHashChange ==
    /\ hashEvents > 0
    /\ SetRouter(Navigated([RouterNow EXCEPT !.hashEvents = @ - 1],
                           HashPage(hash)))
    /\ UNCHANGED <<monitorVars, outcomes, controllerVars>>

\* initTranscriptionsPage(), run by the render callback on router state r.
initTranscriptionsPage(r) ==
    /\ SetRouter(r)
    /\ SetList(loadTranscriptions(Document(r.container, r.controls),
                                  [ListNow EXCEPT !.page = 1]))
    /\ clickListeners' = clickListeners + 1

\* initDetailPage(), run by the render callback on router state r.
initDetailPage(r) ==
    /\ IF getCurrentPage(r).videoId \in {"null", ""}
       THEN SetRouter(Navigated(r, <<"home">>))
       ELSE SetRouter(r)
    /\ UNCHANGED <<pagination, listRequests, clickListeners>>

\* The callback of loadPage's timer: the cloned template replaces what the
\* container held and the page's reset callback runs.
RenderCallback(r, page) ==
    LET rendered == [r EXCEPT !.container = page, !.controls = NoControls]
    IN  /\ IF page = "transcriptions" THEN initTranscriptionsPage(rendered)
           ELSE IF page = "detail" THEN initDetailPage(rendered)
           ELSE /\ SetRouter(rendered)
                /\ UNCHANGED <<pagination, listRequests, clickListeners>>
        /\ UNCHANGED burst

\* The entries window.history.back() may lead to; the session history is
\* the browser's.
HistoryEntries == {<<"home">>, <<"transcriptions">>}

\* The callback of the first timer of confirmDeleteTranscription.
BackCallback(r) ==
    /\ \E previous \in HistoryEntries \cup {r.hash} :
           SetRouter([r EXCEPT
               !.pageTimers = Append(@, PageTimer("fallback", FallbackDelay, "")),
               !.hash = previous,
               !.hashEvents = IF previous # r.hash THEN @ + 1 ELSE @])
    /\ UNCHANGED <<pagination, listRequests, clickListeners, burst>>

\* The callback of its second timer.
FallbackCallback(r) ==
    /\ IF Property(getCurrentPage(r), "name") = "detail"
       THEN SetRouter(Navigated(r, <<"transcriptions">>))
       ELSE SetRouter(r)
    /\ UNCHANGED <<pagination, listRequests, clickListeners, burst>>

\* The callback of a debounced search handler of the page controller.
SearchCallback(r) ==
    /\ SetRouter(r)
    /\ SetList(searchTranscriptions(Document(r.container, r.controls),
                                    ListNow))
    /\ burst' = [burst EXCEPT !.controller = ReloadLogged(@)]
    /\ UNCHANGED clickListeners

\* The callback of a debounced search handler of App.
App_SearchCallback(r) ==
    /\ SetRouter(r)
    /\ SetList(searchTranscriptions(Document(r.container, r.controls),
                                    ListNow))
    /\ burst' = [burst EXCEPT !.App = ReloadLogged(@)]
    /\ UNCHANGED clickListeners

\* The i-th pending timer of the router or of a page controller expires and
\* its callback runs.  A timer armed earlier with the same or a smaller
\* delay expires first.
OnPageTimer(i) ==
    LET t == pageTimers[i]
        r == [RouterNow EXCEPT !.pageTimers = Without(pageTimers, i)]
    IN  /\ \A j \in 1..(i - 1) : pageTimers[j].delay > t.delay
        /\ IF t.kind = "render" THEN RenderCallback(r, t.page)
           ELSE IF t.kind = "back" THEN BackCallback(r)
           ELSE IF t.kind = "fallback" THEN FallbackCallback(r)
           ELSE IF t.kind = "search" THEN SearchCallback(r)
           ELSE App_SearchCallback(r)
        /\ UNCHANGED <<monitorVars, outcomes, deleteRequests, now>>

\* A click on an enabled pagination control of the displayed list.  (The
\* model clicks the controls once updatePagination has written them.)
OnClick(target) ==
    /\ container = "transcriptions"
    /\ controls.written
    /\ \/ target = PrevControl /\ ~controls.prevDisabled
       \/ target = NextControl /\ ~controls.nextDisabled
       \/ target.id = "pagination-btn" /\ target.dataPage \in controls.pages
    /\ Len(listRequests) < MaxListRequests
    /\ SetList(DispatchClick(Document(container, controls), ListNow, target,
                             clickListeners))
    /\ UNCHANGED <<monitorVars, outcomes, currentPage, currentVideoId,
                   routerVars, clickListeners, deleteRequests, now, burst>>

\* The user selects another value of #tag-filter: its change listener.
OnTagFilterChange(value) ==
    /\ container = "transcriptions"
    /\ value # controls.tagFilter
    /\ Len(listRequests) < MaxListRequests
    /\ controls' = [controls EXCEPT !.tagFilter = value]
    /\ SetList(filterByTag(Document(container, controls'), ListNow))
    /\ UNCHANGED <<monitorVars, outcomes, currentPage, currentVideoId,
                   container, pageTimers, hash, hashEvents, clickListeners,
                   deleteRequests, now, burst>>

\* The transcriptions the server holds at first, and those of them that
\* carry the tag or match the query (the one that is deleted does not).
AllTranscriptions == 25
MatchingTranscriptions == 5

\* The deletions the server has carried out and the page has been told of.
Deleted ==
    Cardinality({ i \in 1..Len(outcomes) : outcomes[i].kind = "success" })

\* data.total of the answer to a list request.
ServerTotal(request) ==
    IF request.tagFilter = "" /\ request.searchQuery = ""
    THEN AllTranscriptions - Deleted
    ELSE MatchingTranscriptions

\* The i-th pending list request is answered with data.success:
\* loadTranscriptions resumes after its await.
OnListResponse(i) ==
    /\ listRequests' = Without(listRequests, i)
    /\ pagination' = Pagination(pagination.page, ServerTotal(listRequests[i]))
    /\ controls' = updatePagination(container, controls, pagination')
    /\ UNCHANGED <<monitorVars, outcomes, currentPage, currentVideoId,
                   container, pageTimers, hash, hashEvents, clickListeners,
                   deleteRequests, now, burst>>

\* The user edits #search-input: the input event is handled by the
\* debounced function that initTranscriptionsPage made for this element:
\* clearTimeout, setTimeout.
OnSearchInput(value) ==
    LET mine(t) == t.kind = "search" /\ t.owner = clickListeners
    IN  /\ container = "transcriptions"
        /\ value # controls.searchInput
        /\ InputLogged(burst.controller).events <= MaxInputs
        /\ controls' = [controls EXCEPT !.searchInput = value]
        /\ pageTimers' = Append(SelectSeq(pageTimers, LAMBDA t : ~mine(t)),
                                SearchTimer("search", clickListeners))
        /\ burst' = [burst EXCEPT !.controller = InputLogged(@)]
        /\ UNCHANGED <<monitorVars, outcomes, currentPage, currentVideoId,
                       container, hash, hashEvents, pagination,
                       clickListeners, listRequests, deleteRequests, now>>

\* The user edits #search-input: the input event is handled by App's
\* listener on document: this.debounce(...)() makes a debounced function and
\* calls it once.
App_OnSearchInput(value) ==
    /\ container = "transcriptions"
    /\ value # controls.searchInput
    /\ InputLogged(burst.App).events <= MaxInputs
    /\ controls' = [controls EXCEPT !.searchInput = value]
    /\ pageTimers' = Append(pageTimers, SearchTimer("App_search", 0))
    /\ burst' = [burst EXCEPT !.App = InputLogged(@)]
    /\ UNCHANGED <<monitorVars, outcomes, currentPage, currentVideoId,
                   container, hash, hashEvents, pagination,
                   clickListeners, listRequests, deleteRequests, now>>

\* The delete button of the detail page is clicked and the dialog confirmed:
\* the callback of confirmDeleteTranscription runs up to its await.
OnDeleteConfirmed ==
    /\ container = "detail"
    /\ deleteRequests + Len(outcomes) < MaxDeletes
    /\ deleteRequests' = deleteRequests + 1
    /\ UNCHANGED <<monitorVars, outcomes, currentPage, currentVideoId,
                   routerVars, pagination, clickListeners, listRequests,
                   now, burst>>

\* The delete request is answered: the callback resumes after its await.
OnDeleteResponse(success) ==
    /\ deleteRequests > 0
    /\ deleteRequests' = deleteRequests - 1
    /\ IF success
       THEN /\ outcomes' = Append(outcomes,
                    Outcome("success", "deleted", "transcription deleted"))
            /\ IF Property(getCurrentPage(RouterNow), "name") = "detail"
               THEN /\ pageTimers' = Append(pageTimers,
                            PageTimer("back", BackDelay, ""))
                    /\ UNCHANGED <<pagination, listRequests>>
               ELSE /\ SetList(loadTranscriptions(
                                Document(container, controls), ListNow))
                    /\ UNCHANGED pageTimers
       ELSE /\ outcomes' = Append(outcomes,
                    Outcome("error", "delete failed", "delete failed"))
            /\ UNCHANGED <<pageTimers, pagination, listRequests>>
    /\ UNCHANGED <<monitorVars, currentPage, currentVideoId, container,
                   controls, hash, hashEvents, clickListeners, now, burst>>


----------------------------------------------------------------------------
(* The application after initApp: the page controllers have registered     *)
(* their callbacks, initRouter has navigated to the page of the hash the   *)
(* document was opened with, and no task is monitored.                     *)

\* The hashes the document is opened with.
InitialHashes == {<<>>, <<"transcriptions">>}

\* The hashes the user moves to.
UserHashes == {<<"home">>, <<"transcriptions">>, <<"transcription", "BV1">>,
               <<"nosuch">>}

\* The values the user gives #tag-filter and #search-input.
TagValues == {"", "tag"}
SearchValues == {"", "q"}

\* No task is monitored.
MonitorIdle ==
    /\ videoId = "BV1"
    /\ statusElem = TRUE
    /\ progressBar = TRUE
    /\ lastProgress = 0
    /\ animationFrame = "null"
    /\ currentStageName = DefaultStageName
    /\ checkInterval = InitialInterval
    /\ checkCount = 0
    /\ width = InitialWidth
    /\ frames = <<>>
    /\ timers = <<>>
    /\ inflight = 0
    /\ statusText = FixedText("downloading")
    /\ modalShown = FALSE
    /\ outcomes = <<>>
    /\ navigated = <<>>
    /\ requests = 0
    /\ streak = 0
    /\ observed = "none"

\* The router state of the module and an empty container, with the document
\* opened at hash h.
RouterAtLoad(h) ==
    [currentPage |-> "home", currentVideoId |-> "null", container |-> "",
     controls |-> NoControls, pageTimers |-> <<>>, hash |-> h, hashEvents |-> 0]

InitPages ==
    /\ MonitorIdle
    /\ now = 0
    /\ pagination = Pagination(1, 0)
    /\ clickListeners = 0
    /\ listRequests = <<>>
    /\ deleteRequests = 0
    /\ burst = [controller |-> NoBurst, App |-> NoBurst]
    /\ \E h \in InitialHashes :
           LET r == Navigated(RouterAtLoad(h), HashPage(h))
           IN  /\ currentPage = r.currentPage
               /\ currentVideoId = r.currentVideoId
               /\ container = r.container
               /\ controls = r.controls
               /\ pageTimers = r.pageTimers
               /\ hash = r.hash
               /\ hashEvents = r.hashEvents

\* The pages a data-page button may carry.
ButtonPages == 1..MaxPage(AllTranscriptions)

NextPages ==
    \/ \E h \in UserHashes : OnHashChangeTo(h)
    \/ OnHashChange
    \/ \E i \in 1..Len(pageTimers) : OnPageTimer(i)
    \/ \E target \in {PrevControl, NextControl}
                        \cup {PageControl(n) : n \in ButtonPages} :
           OnClick(target)
    \/ \E value \in TagValues : OnTagFilterChange(value)
    \/ \E i \in 1..Len(listRequests) : OnListResponse(i)
    \/ \E value \in SearchValues : OnSearchInput(value)
    \/ OnDeleteConfirmed
    \/ \E success \in BOOLEAN : OnDeleteResponse(success)

SpecPages == InitPages /\ [][NextPages]_vars

----------------------------------------------------------------------------
\* A timer of the given kind is pending.
PageTimerPending(kind) ==
    \E i \in 1..Len(pageTimers) : pageTimers[i].kind = kind

(* C33: after a transcription was deleted successfully while the detail    *)
(* page is the current page, the application leaves the detail page: the   *)
(* step that handles the successful delete response arms the timer whose   *)
(* callback goes back in the history (and falls back to the transcriptions *)
(* list).                                                                  *)
C33_LeavesDetailAfterDelete ==
    [][(OnDeleteResponse(TRUE) /\ currentPage = "detail") =>
           PageTimerPending("back")']_vars

\* What the container shows for a page once it is rendered.
Shown(page) == IF page \in Templates THEN page ELSE "notFound"

(* C34: after any sequence of navigateTo calls, once every pending render  *)
(* timer has fired, the container shows the content of the page the router *)
(* state records as current, the not-found message for a page without      *)
(* template included.                                                      *)
C34_ContainerShowsCurrentPage ==
    ~PageTimerPending("render") => container = Shown(currentPage)

(* C35: one click on the next-page (previous-page) control changes the     *)
(* page number by exactly one when a next (previous) page exists, however  *)
(* many times the transcriptions page was initialised before.              *)
C35_OneClickOnePage ==
    [][/\ (OnClick(NextControl) /\ pagination.page < MaxPage(pagination.total))
           => pagination'.page = pagination.page + 1
       /\ (OnClick(PrevControl) /\ pagination.page > 1)
           => pagination'.page = pagination.page - 1]_vars

(* C36: the page number stays within 1..max(1, ceil(total/limit)) after    *)
(* any sequence of prevPage, nextPage, goToPage, search, tag-filter and    *)
(* page-initialisation operations.                                         *)
C36_PageWithinBounds ==
    pagination.page \in 1..Max(1, MaxPage(pagination.total))


----------------------------------------------------------------------------
(* Search input under the clock: the transcriptions page is displayed, its *)
(* list is loaded, and time passes in steps of 100 ms.                     *)

\* The clock step and the time the model follows the clock for.
TickStep == SearchDelay \div 3
MaxTime == 700

\* A timer has reached its time.
TimerDue == \E i \in 1..Len(pageTimers) : pageTimers[i].due <= now

InitSearch ==
    /\ MonitorIdle
    /\ now = 0
    /\ currentPage = "transcriptions"
    /\ currentVideoId = "null"
    /\ container = "transcriptions"
    /\ pagination \in {Pagination(1, AllTranscriptions),
                        Pagination(2, AllTranscriptions)}
    /\ controls = updatePagination(container, NoControls, pagination)
    /\ pageTimers = <<>>
    /\ hash = <<"transcriptions">>
    /\ hashEvents = 0
    /\ clickListeners = 1
    /\ listRequests = <<>>
    /\ deleteRequests = 0
    /\ burst = [controller |-> NoBurst, App |-> NoBurst]

\* 100 ms pass; a timer that has reached its time fires before the clock
\* moves on.
Tick ==
    /\ now < MaxTime
    /\ ~TimerDue
    /\ now' = now + TickStep
    /\ UNCHANGED <<monitorVars, outcomes, currentPage, currentVideoId,
                   routerVars, pagination, clickListeners, listRequests,
                   deleteRequests, burst>>

\* Under the clock a timer fires when it has reached its time, and an input
\* event that falls on the same instant comes after it.
NextSearch ==
    \/ Tick
    \/ \E value \in SearchValues : ~TimerDue /\ OnSearchInput(value)
    \/ \E value \in SearchValues : ~TimerDue /\ App_OnSearchInput(value)
    \/ \E i \in 1..Len(pageTimers) : pageTimers[i].due <= now /\ OnPageTimer(i)
    \/ \E i \in 1..Len(listRequests) : OnListResponse(i)

SpecSearch == InitSearch /\ [][NextSearch]_vars

\* The two implementations of the search box.
SearchHandlers == {"controller", "App"}

\* The handler `who` reloads the list only 300 ms after the last input
\* event, and only once for it.
ReloadsWhenDue(who) ==
    burst'[who].reloads = burst[who].reloads + 1 =>
        /\ now = burst[who].last + 300
        /\ burst[who].reloads = 0

\* Once more than 300 ms have passed since the last input event, the
\* handler `who` has reloaded the list once.
ReloadedWhenDue(who) ==
    (burst[who].events > 0 /\ now > burst[who].last + 300) =>
        burst[who].reloads = 1

(* C37: search input is debounced, in the App object and in the page       *)
(* controller: for a burst of input events less than 300 ms apart the list *)
(* is reloaded exactly once, 300 ms after the last event of the burst.     *)
C37_SearchDebounced ==
    /\ [][\A who \in SearchHandlers : ReloadsWhenDue(who)]_vars
    /\ [](\A who \in SearchHandlers : ReloadedWhenDue(who))

\* The same for the page controller alone.
C37_PageControllerDebounced ==
    /\ [][ReloadsWhenDue("controller")]_vars
    /\ [](ReloadedWhenDue("controller"))

\* A burst of two input events to the page controller has been answered by
\* its one reload.
C37_ControllerWitness ==
    /\ burst.controller.events = 2
    /\ burst.controller.reloads = 1
    /\ now = burst.controller.last + 300

====
